---- MODULE Spec2Model ----
(***************************************************************************)
(* EvaluationLoop of pytorch_lightning/loops/evaluation_loop.py as a state *)
(* machine.  The loop object's fields are the state; reset, on_run_start,  *)
(* advance and on_run_end are the actions.  The host (trainer, lightning   *)
(* module, hooks, logger connector) is the environment: the calls an       *)
(* advance() makes into it are recorded in `calls`, and what a call        *)
(* returns, whether it raises and whether it changes trainer.testing are   *)
(* inputs of the advance action.  The base class's run() is not part of    *)
(* the file: its bookkeeping (iteration_count, the calling order) follows  *)
(* the loop's documented contract.                                         *)
(***************************************************************************)
EXTENDS Integers, Sequences, FiniteSets, TLC

\* ------------------------------------------------------------------ bounds
MaxLen == 3           \* longest dataloader (number of batches)
MaxBatches == 2       \* largest dl_max_batches the host passes

\* ------------------------------------------------------------------ values
\* Python None in an Optional[int] field
None == -1

\* exceptions leaving a call ("" when the call returned)
NoExc == ""
StopIteration == "StopIteration"
TypeError == "TypeError"
AdapterError == "AdapterError"

\* a batch of a dataloader: a payload, or the None batch
Batch == "batch"
NullBatch == "None"

\* a step output: None, a plain dict or a Result; predictions = 0 when the
\* mapping has no 'predictions' key, else the value stored under that key
NoPredictions == 0
NoneOutput == [kind |-> "None", predictions |-> NoPredictions]
DictOutput(p) == [kind |-> "dict", predictions |-> p]
ResultOutput(p) == [kind |-> "Result", predictions |-> p]
\* the predictions the model computes for batch bi, and those of the output a
\* <mode>_step_end hook puts in place of its argument
PredictionsOf(bi) == bi + 1
ReplacedPredictionsOf(bi) == 0 - (bi + 1)
\* what the step function returns for batch bi, by the host's choice
StepKinds == {"None", "Result"}
StepOutput(kind, bi) ==
    IF kind = "None" THEN NoneOutput ELSE ResultOutput(PredictionsOf(bi))
\* what the <mode>_step_end hook returns: its argument, None or a dict of its own
StepEndKinds == {"same", "None", "dict"}
StepEndOutput(kind, output, bi) ==
    CASE kind = "same" -> output
      [] kind = "None" -> NoneOutput
      [] OTHER -> DictOutput(ReplacedPredictionsOf(bi))

\* the dataloaders the host may pass: up to MaxLen batches, or some batches,
\* the None batch and one more batch
Batches(n) == [i \in 1..n |-> Batch]
Dataloaders ==
    {Batches(n) : n \in 0..MaxLen}
        \cup {Batches(n) \o <<NullBatch, Batch>> : n \in 0..(MaxLen - 2)}
\* one dataloader, or several (dataloader_idx is that of the last one)
NumDataloaders == {1, 2}

\* the places of advance() where host code runs (a hook or the step function)
HostSites == {"on_batch_start", "step", "step_end", "on_batch_end"}
\* the host code that may change trainer.testing while it runs
FlipSites == {"step"}
SiteOrder(site) ==
    CASE site = "on_batch_start" -> 1 [] site = "step" -> 2
      [] site = "step_end" -> 3 [] site = "on_batch_end" -> 4 [] OTHER -> 5

\* what the host does during one advance(): the step's return value, the
\* step-end hook's return value, the site that raises and the site that
\* changes trainer.testing ("" = none)
HostBehaviours ==
    [step : StepKinds, step_end : StepEndKinds,
     raiseAt : {""} \cup HostSites, flipAt : {""} \cup FlipSites]
Quiet == [step |-> "None", step_end |-> "same", raiseAt |-> "", flipAt |-> ""]
\* the behaviours the host chooses among: a call that raises returns
\* nothing and nothing runs after it; in an advance() where the host raises or
\* changes trainer.testing, the step returns a Result where it returns and the
\* step-end hook returns its argument
Observable(h) ==
    /\ h.raiseAt # "" => /\ h.step = (IF SiteOrder(h.raiseAt) <= 2 THEN "None" ELSE "Result")
                         /\ h.step_end = "same"
                         /\ h.flipAt = ""
    /\ h.flipAt # "" => h.step = "Result" /\ h.step_end = "same"

\* ------------------------------------------------------------------- state
VARIABLES
    iteration_count,  \* Loop.iteration_count
    predictions,      \* self.predictions: [created, items]
    dataloader,       \* self.dataloader: the enumerate() cursor [it, idx, rest]
    dl_max_batches,   \* self.dl_max_batches
    dataloader_idx,   \* self.dataloader_idx
    num_dataloaders,  \* self.num_dataloaders
    batch_idx,        \* self.batch_idx
    outputs,          \* self.outputs
    testing,          \* self.trainer.testing
    calls,            \* the calls the last advance() made, in order
    batches,          \* this run's processed batches: [batch_idx, output, testing]
    stepped,          \* this run's batch indices that reached the step function
    last,             \* the last operation and the exception it raised
    phase,            \* where the host is in Loop.run
    driven,           \* the host has called advance() only as Loop.run does
    returned          \* the value this run's on_run_end() returned

vars == <<iteration_count, predictions, dataloader, dl_max_batches, dataloader_idx,
          num_dataloaders, batch_idx, outputs, testing, calls, batches, stepped, last,
          phase, driven, returned>>

NoPredictionCollection == [created |-> FALSE, items |-> <<>>]
PredictionCollection == [created |-> TRUE, items |-> <<>>]
NoIterator == [it |-> FALSE, idx |-> 0, rest |-> <<>>]
enumerate(dl) == [it |-> TRUE, idx |-> 0, rest |-> dl]

\* ------------------------------------------------------------------ __init__
Init ==
    /\ iteration_count = 0
    /\ predictions = NoPredictionCollection
    /\ dataloader = NoIterator
    /\ dl_max_batches = None
    /\ dataloader_idx = None
    /\ num_dataloaders = None
    /\ batch_idx = None
    /\ outputs = <<>>
    /\ testing \in BOOLEAN
    /\ calls = <<>>
    /\ batches = <<>>
    /\ stepped = <<>>
    /\ last = [op |-> "__init__", exc |-> NoExc, site |-> ""]
    /\ phase = "init"
    /\ driven = TRUE
    /\ returned = <<>>

\* done with `>` in place of `>=`
done_Greater ==
    IF batch_idx = None THEN "False"
    ELSE IF dl_max_batches = None THEN TypeError
    ELSE IF batch_idx > dl_max_batches THEN "True" ELSE "False"

\* ---------------------------------------------------------------------- done
\* the property `done`: "True", "False", or the TypeError of comparing an int
\* with None
done ==
    IF batch_idx = None THEN "False"
    ELSE IF dl_max_batches = None THEN TypeError
    ELSE IF batch_idx >= dl_max_batches THEN "True"
    ELSE "False"

\* --------------------------------------------------------------------- reset
reset ==
    /\ iteration_count' = 0
    /\ predictions' = PredictionCollection
    /\ dl_max_batches' = None
    /\ dataloader_idx' = None
    /\ num_dataloaders' = None
    /\ outputs' = <<>>
    /\ calls' = <<>>
    /\ batches' = <<>>
    /\ stepped' = <<>>
    /\ returned' = <<>>
    /\ last' = [op |-> "reset", exc |-> NoExc, site |-> ""]
    /\ phase' = "reset"
    /\ UNCHANGED <<dataloader, batch_idx, testing, driven>>

\* -------------------------------------------------------------- on_run_start
on_run_start(dl, max_batches, idx, num) ==
    /\ phase = "reset"
    /\ dl_max_batches' = max_batches
    /\ dataloader_idx' = idx
    /\ num_dataloaders' = num
    /\ dataloader' = enumerate(dl)
    /\ calls' = <<>>
    /\ batches' = <<>>
    /\ stepped' = <<>>
    /\ last' = [op |-> "on_run_start", exc |-> NoExc, site |-> ""]
    /\ phase' = "running"
    /\ UNCHANGED <<iteration_count, predictions, batch_idx, outputs, testing,
                   returned, driven>>

\* ------------------------------------------------------ calls into the host
\* one recorded call: the function called, the batch it is for, the output and
\* the keyword-argument names passed, the value returned, and trainer.testing
\* as it was when the call was made
Call(fx, bi, out, kw, ret, t) ==
    [fx |-> fx, batch_idx |-> bi, output |-> out, kwargs |-> kw, ret |-> ret,
     testing |-> t]

\* the frame of a running advance(): the fields advance() writes, its local
\* `output` and `step_kwargs`, and the exception being raised, if any
Frame ==
    [batch_idx |-> batch_idx, dataloader |-> dataloader, outputs |-> outputs,
     predictions |-> predictions, testing |-> testing, calls |-> <<>>,
     output |-> NoneOutput, kwargs |-> <<>>,
     exc |-> NoExc, site |-> ""]

Raise(s, exc, site) == [s EXCEPT !.exc = exc, !.site = site]

\* a call into a collaborator that returns; `out` is the output passed to it
Record(s, fx, bi, out) ==
    IF s.exc # NoExc THEN s
    ELSE [s EXCEPT !.calls = Append(@, Call(fx, bi, out, <<>>, NoneOutput, s.testing))]

\* a call into host code (a hook or the step function): it is recorded, may
\* change trainer.testing while it runs, and returns or raises
HostCall(s, site, c, h) ==
    IF s.exc # NoExc THEN s
    ELSE LET called == [s EXCEPT !.calls = Append(@, c)]
             ran == IF h.flipAt = site THEN [called EXCEPT !.testing = ~@] ELSE called
         IN IF h.raiseAt = site THEN Raise(ran, AdapterError, site) ELSE ran

\* `output = ...` once the call on the right-hand side has returned
SetOutput(s, output) ==
    IF s.exc # NoExc THEN s ELSE [s EXCEPT !.output = output]

\* ------------------------------------------------------------- _build_kwargs
\* _build_kwargs without its multiple_test_loaders case
build_kwargs_ValidationOnly(s, batch, bi, idx) ==
    IF s.exc # NoExc THEN s
    ELSE IF num_dataloaders = None THEN Raise(s, TypeError, "_build_kwargs")
    ELSE [s EXCEPT !.kwargs =
            IF ~s.testing /\ num_dataloaders > 1
            THEN <<"batch", "batch_idx", "dataloader_idx">>
            ELSE <<"batch", "batch_idx">>]

build_kwargs(s, batch, bi, idx) ==
    IF s.exc # NoExc THEN s
    ELSE IF num_dataloaders = None THEN Raise(s, TypeError, "_build_kwargs")
    ELSE LET multiple_val_loaders == ~s.testing /\ num_dataloaders > 1
             multiple_test_loaders == s.testing /\ num_dataloaders > 1
         IN [s EXCEPT !.kwargs =
                IF multiple_test_loaders \/ multiple_val_loaders
                THEN <<"batch", "batch_idx", "dataloader_idx">>
                ELSE <<"batch", "batch_idx">>]

\* ----------------------------------------------------------- evaluation_step
\* accelerator.test_step(step_kwargs) or accelerator.validation_step(step_kwargs)
accelerator_step(s, bi, h) ==
    SetOutput(HostCall(s, "step",
                       Call(IF s.testing THEN "test_step" ELSE "validation_step",
                            bi, NoneOutput, s.kwargs, StepOutput(h.step, bi), s.testing),
                       h),
              StepOutput(h.step, bi))

\* output.track_batch_size(batch), of a Result
track_batch_size(s, bi) ==
    IF s.output.kind = "Result" THEN Record(s, "track_batch_size", bi, s.output) ELSE s

\* evaluation_step without `model_ref._results = Result()`
evaluation_step_KeepResults(s, batch, bi, idx, h) ==
    track_batch_size(
        Record(accelerator_step(build_kwargs(s, batch, bi, idx), bi, h),
               "cache_logged_metrics", bi, NoneOutput),
        bi)

evaluation_step(s, batch, bi, idx, h) ==
    track_batch_size(
        Record(accelerator_step(Record(build_kwargs(s, batch, bi, idx),
                                       "_results = Result()", bi, NoneOutput),
                                bi, h),
               "cache_logged_metrics", bi, NoneOutput),
        bi)

\* ------------------------------------------------------- evaluation_step_end
\* evaluation_step_end that keeps the step's output when the hook returns None
evaluation_step_end_KeepOnNone(s, bi, h) ==
    SetOutput(HostCall(s, "step_end",
                       Call(IF s.testing THEN "test_step_end" ELSE "validation_step_end",
                            bi, s.output, <<>>, StepEndOutput(h.step_end, s.output, bi),
                            s.testing),
                       h),
              IF StepEndOutput(h.step_end, s.output, bi) = NoneOutput
              THEN s.output
              ELSE StepEndOutput(h.step_end, s.output, bi))

evaluation_step_end(s, bi, h) ==
    SetOutput(HostCall(s, "step_end",
                       Call(IF s.testing THEN "test_step_end" ELSE "validation_step_end",
                            bi, s.output, <<>>, StepEndOutput(h.step_end, s.output, bi),
                            s.testing),
                       h),
              StepEndOutput(h.step_end, s.output, bi))

\* ------------------------------------------------- on_evaluation_batch_start
\* call_hook('on_test_batch_start', ...) or call_hook('on_validation_batch_start', ...)
call_hook_batch_start(s, bi, h) ==
    HostCall(s, "on_batch_start",
             Call(IF s.testing THEN "on_test_batch_start" ELSE "on_validation_batch_start",
                  bi, NoneOutput, <<>>, NoneOutput, s.testing),
             h)

on_evaluation_batch_start(s, batch, bi, idx, h) ==
    call_hook_batch_start(Record(s, "on_evaluation_batch_start", bi, NoneOutput), bi, h)

\* --------------------------------------------------------- store_predictions
\* PredictionCollection.add
add(collection, p) == [collection EXCEPT !.items = Append(@, p)]

\* ... with output.get('predictions') in place of output.pop('predictions', None)
pop_predictions_Get(s) ==
    [s EXCEPT !.predictions = add(@, s.output.predictions)]

\* self.predictions.add(output.pop('predictions', None))
pop_predictions(s) ==
    [s EXCEPT !.predictions = add(@, s.output.predictions),
              !.output = [@ EXCEPT !.predictions = NoPredictions]]

\* dev_debugger.track_eval_loss_history(batch_idx, dataloader_idx, output)
track_eval_loss_history(s, bi) == Record(s, "track_eval_loss_history", bi, s.output)

\* store_predictions with the test on trainer.testing changed: the
\* predictions of a Result are stored when `keep` holds
Store(s, bi, keep) ==
    IF s.exc # NoExc THEN s
    ELSE track_eval_loss_history(
            IF s.predictions.created /\ s.output.kind = "Result" /\ keep
            THEN pop_predictions(Record(s, "store_predictions", bi, s.output))
            ELSE Record(s, "store_predictions", bi, s.output),
            bi)
\* ... `not self.trainer.testing`
store_predictions_NotTesting(s, bi, idx) == Store(s, bi, ~s.testing)
\* ... no test on trainer.testing
store_predictions_AnyMode(s, bi, idx) == Store(s, bi, TRUE)

store_predictions(s, bi, idx) ==
    IF s.exc # NoExc THEN s
    ELSE track_eval_loss_history(
            IF /\ s.output.kind # "None"
               /\ s.predictions.created
               /\ s.output.kind = "Result"
               /\ s.testing
            THEN pop_predictions(Record(s, "store_predictions", bi, s.output))
            ELSE Record(s, "store_predictions", bi, s.output),
            bi)

\* --------------------------------------------------- on_evaluation_batch_end
\* call_hook('on_test_batch_end', ...) or call_hook('on_validation_batch_end', ...)
call_hook_batch_end(s, bi, h) ==
    HostCall(s, "on_batch_end",
             Call(IF s.testing THEN "on_test_batch_end" ELSE "on_validation_batch_end",
                  bi, s.output, <<>>, NoneOutput, s.testing),
             h)

\* on_evaluation_batch_end with store_predictions called before the hook
on_evaluation_batch_end_StoreFirst(s, batch, bi, idx, h) ==
    call_hook_batch_end(store_predictions(s, bi, idx), bi, h)
\* on_evaluation_batch_end with store_predictions in a `finally:` of the hook
on_evaluation_batch_end_Finally(s, batch, bi, idx, h) ==
    LET hooked == call_hook_batch_end(s, bi, h)
        stored == store_predictions([hooked EXCEPT !.exc = s.exc], bi, idx)
    IN [stored EXCEPT !.exc = hooked.exc, !.site = hooked.site]

on_evaluation_batch_end(s, batch, bi, idx, h) ==
    store_predictions(call_hook_batch_end(s, bi, h), bi, idx)

\* ------------------------------------------- trainer._track_output_for_epoch_end
\* the host's reducer: a non-None output is appended
track_output_for_epoch_end(acc, output) ==
    IF output.kind = "None" THEN acc ELSE Append(acc, output)

\* ... with an empty list passed as the accumulator
track_epoch_outputs_EmptyAccumulator(s, bi) ==
    IF s.exc # NoExc THEN s
    ELSE [Record(s, "_track_output_for_epoch_end", bi, s.output)
            EXCEPT !.outputs = track_output_for_epoch_end(<<>>, s.output)]

\* self.outputs = self.trainer._track_output_for_epoch_end(self.outputs, output)
track_epoch_outputs(s, bi) ==
    IF s.exc # NoExc THEN s
    ELSE [Record(s, "_track_output_for_epoch_end", bi, s.output)
            EXCEPT !.outputs = track_output_for_epoch_end(@, s.output)]

\* ------------------------------------------------------------------- advance
\* advance() with log_evaluation_step_metrics() called before
\* on_evaluation_batch_end
evaluate_batch_LogBeforeBatchEnd(s, batch, bi, idx, h) ==
    track_epoch_outputs(
        on_evaluation_batch_end(
            Record(evaluation_step_end(
                       evaluation_step(
                           on_evaluation_batch_start(s, batch, bi, idx, h),
                           batch, bi, idx, h),
                       bi, h),
                   "log_evaluation_step_metrics", bi, NoneOutput),
            batch, bi, idx, h),
        bi)

\* the hooks, the step and the bookkeeping of one batch: lines 50-65
evaluate_batch(s, batch, bi, idx, h) ==
    track_epoch_outputs(
        Record(on_evaluation_batch_end(
                   evaluation_step_end(
                       evaluation_step(
                           on_evaluation_batch_start(s, batch, bi, idx, h),
                           batch, bi, idx, h),
                       bi, h),
                   batch, bi, idx, h),
               "log_evaluation_step_metrics", bi, NoneOutput),
        bi)

\* advance() with `if batch is None` after the batch-start hook
process_batch_NoneCheckLate(s, batch, bi, idx, h) ==
    IF batch = NullBatch
    THEN Raise(on_evaluation_batch_start(s, batch, bi, idx, h),
               StopIteration, "batch is None")
    ELSE evaluate_batch(s, batch, bi, idx, h)

\* the body of advance() after a batch was pulled: lines 47-65
process_batch(s, batch, bi, idx, h) ==
    IF batch = NullBatch THEN Raise(s, StopIteration, "batch is None")
    ELSE evaluate_batch(s, batch, bi, idx, h)

\* advance() with `next(self.dataloader, None)`: unpacking the None of an
\* exhausted dataloader raises TypeError
advance_frame_NextDefaultsToNone(idx, h) ==
    IF ~dataloader.it \/ dataloader.rest = <<>> THEN Raise(Frame, TypeError, "next")
    ELSE process_batch([Frame EXCEPT
                          !.dataloader = [it |-> TRUE, idx |-> dataloader.idx + 1,
                                          rest |-> Tail(dataloader.rest)],
                          !.batch_idx = dataloader.idx],
                       Head(dataloader.rest), dataloader.idx, idx, h)

\* advance() as a function of the loop's state: next(self.dataloader), the
\* assignment of batch_idx, the None-batch check, then the batch
advance_frame(idx, h) ==
    IF ~dataloader.it THEN Raise(Frame, TypeError, "next")
    ELSE IF dataloader.rest = <<>> THEN Raise(Frame, StopIteration, "next")
    ELSE process_batch([Frame EXCEPT
                          !.dataloader = [it |-> TRUE, idx |-> dataloader.idx + 1,
                                          rest |-> Tail(dataloader.rest)],
                          !.batch_idx = dataloader.idx],
                       Head(dataloader.rest), dataloader.idx, idx, h)

\* the calls of a trace made to function names in S
CallsTo(trace, S) == SelectSeq(trace, LAMBDA c : c.fx \in S)
StepFx == {"test_step", "validation_step"}
BatchEndFx == {"on_test_batch_end", "on_validation_batch_end"}

\* the host has nothing to decide when no batch reaches it
Pulls == dataloader.it /\ dataloader.rest # <<>> /\ Head(dataloader.rest) # NullBatch

\* the outcome s of advance() becomes the loop's state
Outcome(s) ==
    /\ batch_idx' = s.batch_idx
    /\ dataloader' = s.dataloader
    /\ outputs' = s.outputs
    /\ predictions' = s.predictions
    /\ testing' = s.testing
    /\ calls' = s.calls
    /\ last' = [op |-> "advance", exc |-> s.exc, site |-> s.site]
    /\ stepped' = stepped \o [i \in 1..Len(CallsTo(s.calls, StepFx)) |->
                                CallsTo(s.calls, StepFx)[i].batch_idx]
    /\ batches' = IF s.exc = NoExc
                  THEN Append(batches,
                              [batch_idx |-> s.batch_idx,
                               output |-> CallsTo(s.calls, BatchEndFx)[1].output,
                               testing |-> CallsTo(s.calls, {"store_predictions"})[1].testing])
                  ELSE batches
    \* Loop.run: the iteration is counted when advance() returns, and the
    \* loop is left when it raises
    /\ iteration_count' = IF s.exc = NoExc THEN iteration_count + 1
                          ELSE iteration_count
    /\ phase' = IF phase = "running" /\ s.exc # NoExc THEN "stopped" ELSE phase

advance(idx, h) ==
    \* Loop.run passes advance() the arguments it passed on_run_start()
    /\ idx = IF dataloader_idx = None THEN 0 ELSE dataloader_idx
    \* an error of the host is fatal: the host calls no advance() after it
    /\ last.exc # AdapterError
    /\ IF Pulls THEN Observable(h) ELSE h = Quiet
    /\ Outcome(advance_frame(idx, h))
    \* Loop.run calls advance() between on_run_start() and the end of the run,
    \* while done is false
    /\ driven' = (driven /\ phase = "running" /\ done = "False")
    /\ UNCHANGED <<dl_max_batches, dataloader_idx, num_dataloaders, returned>>

\* ---------------------------------------------------------------- on_run_end
on_run_end ==
    \* Loop.run returns on_run_end() once done is true or StopIteration was caught
    /\ \/ phase = "running" /\ done = "True"
       \/ phase = "stopped" /\ last.exc = StopIteration
    /\ returned' = outputs
    /\ last' = [op |-> "on_run_end", exc |-> NoExc, site |-> ""]
    /\ phase' = "ended"
    /\ driven' = driven
    /\ UNCHANGED <<iteration_count, predictions, dataloader, dl_max_batches,
                   dataloader_idx, num_dataloaders, batch_idx, outputs, testing, calls,
                   batches, stepped>>

\* the host changes trainer.testing between two runs, after Loop.run returned
set_testing ==
    /\ phase = "ended" /\ last.op = "on_run_end"
    /\ testing' = ~testing
    /\ UNCHANGED <<last, iteration_count, predictions, dataloader, dl_max_batches,
                   dataloader_idx, num_dataloaders, batch_idx, outputs, calls, batches,
                   stepped, phase, driven, returned>>


Next ==
    \/ reset
    \/ \E dl \in Dataloaders, max_batches \in 0..MaxBatches, num \in NumDataloaders :
         on_run_start(dl, max_batches, num - 1, num)
    \/ \E idx \in {0, 1}, h \in HostBehaviours : advance(idx, h)
    \/ on_run_end
    \/ set_testing

Spec == Init /\ [][Next]_vars

\* ------------------------------------------------------------------ Loop.run
\* the run driver of the base class: reset(), on_run_start(), advance() while
\* done is false and until StopIteration, then on_run_end(); every hook and
\* step call returns
Returns(h) == h.raiseAt = ""
run_reset ==
    /\ phase \in {"init", "ended"}
    /\ reset
run_on_run_start ==
    \E dl \in Dataloaders, max_batches \in 0..MaxBatches, num \in NumDataloaders :
        on_run_start(dl, max_batches, num - 1, num)
run_advance ==
    /\ phase = "running"
    /\ done = "False"
    /\ \E idx \in {0, 1}, h \in HostBehaviours : Returns(h) /\ advance(idx, h)
run_on_run_end == on_run_end

RunNext ==
    \/ run_reset
    \/ run_on_run_start
    \/ run_advance
    \/ run_on_run_end
    \/ set_testing

\* run_advance is enabled exactly when run() is in its loop
RunAdvanceEnabled == phase = "running" /\ done = "False"

\* run() is sequential code that keeps going: a started run is not left
\* waiting before an advance() or before on_run_end().  The first condition
\* is weak fairness of run_advance with its enabling condition written out.
RunSpec ==
    /\ Init /\ [][RunNext]_vars
    /\ ([]<>(~RunAdvanceEnabled) \/ []<><<run_advance>>_vars)
    /\ WF_vars(run_on_run_end)

\* ==================================================================== claims
\* the batch indices 0..n-1 in order
Upto(n) == [i \in 1..n |-> i - 1]
BatchIndices == [i \in 1..Len(batches) |-> batches[i].batch_idx]
\* the dataloader still holds a batch that is not None
HoldsMore == \E i \in 1..Len(dataloader.rest) : dataloader.rest[i] = Batch

\* C1: with dl_max_batches = N and a dataloader holding more than N batches,
\* done is true after exactly N successful advance() calls of the run, and in
\* a run driven by Loop.run no batch with index >= N reaches the step function
\* or a hook.
C1_DoneAfterMaxBatches ==
    /\ (phase = "running" /\ iteration_count = dl_max_batches /\ HoldsMore)
          => done = "True"
    /\ (driven /\ phase \in {"running", "stopped", "ended"})
          => /\ Len(stepped) <= dl_max_batches
             /\ \A i \in 1..Len(calls) : calls[i].batch_idx < dl_max_batches

\* C2: reset() after a full run of Loop.run leaves the loop in the state the
\* first reset() of a fresh instance leaves: counters and collections empty,
\* batch_idx and the run arguments unset, no cursor of the earlier run.
C2_ResetRestoresInitialState ==
    [][(phase = "ended" /\ driven /\ last'.op = "reset") =>
          /\ iteration_count' = 0
          /\ outputs' = <<>>
          /\ predictions' = PredictionCollection
          /\ batch_idx' = None
          /\ dl_max_batches' = None
          /\ dataloader_idx' = None
          /\ num_dataloaders' = None
          /\ dataloader' = NoIterator]_vars

\* C3: between reset() and the first advance() of the next run, done raises
\* no error, and after on_run_start with dl_max_batches >= 1 it is false.
C3_ResetAlwaysSafe ==
    /\ (driven /\ (phase = "reset" \/ last.op = "on_run_start")) => done # TypeError
    /\ (driven /\ last.op = "on_run_start" /\ dl_max_batches >= 1) => done = "False"

\* the run's dataloader yields only batches (no None batch) and then ends;
\* NumBatches is their number K
OnlyBatches ==
    /\ dataloader.idx = Len(batches)
    /\ \A i \in 1..Len(dataloader.rest) : dataloader.rest[i] = Batch
NumBatches == dataloader.idx + Len(dataloader.rest)

\* C4: a run of Loop.run over a dataloader of K batches with dl_max_batches
\* > K processes exactly the batches 0..K-1 in order, ends on the
\* StopIteration of the exhausted dataloader with no call made by that
\* advance(), and on_run_end() returns the outputs of the K batches.
C4_ExhaustionEndsRun ==
    (driven /\ OnlyBatches /\ dl_max_batches > NumBatches) =>
        /\ phase = "stopped" =>
              /\ last.exc = StopIteration /\ last.site = "next" /\ calls = <<>>
              /\ BatchIndices = Upto(NumBatches)
        /\ phase = "ended" =>
              /\ BatchIndices = Upto(NumBatches)
              /\ returned = outputs
              /\ dataloader.rest = <<>>

\* C4 on a loop whose batch_idx an earlier run has not set beyond the new
\* dl_max_batches: the case in which the code agrees with the claim
C4_FreshRunEndsOnExhaustion ==
    (driven /\ OnlyBatches /\ dl_max_batches > NumBatches /\ stepped # <<>>)
        => C4_ExhaustionEndsRun

\* the functions of one batch's sequence, by their place in it
HookFx(t) ==
    <<"on_evaluation_batch_start",
      IF t THEN "on_test_batch_start" ELSE "on_validation_batch_start",
      IF t THEN "test_step" ELSE "validation_step",
      IF t THEN "test_step_end" ELSE "validation_step_end",
      IF t THEN "on_test_batch_end" ELSE "on_validation_batch_end",
      "store_predictions">>
Range(f) == {f[i] : i \in DOMAIN f}
Place(fx) == CHOOSE i \in 1..6 : fx \in {HookFx(TRUE)[i], HookFx(FALSE)[i]}
\* the recorded calls of the last advance() that belong to that sequence
HookCalls == CallsTo(calls, Range(HookFx(TRUE)) \cup Range(HookFx(FALSE)))
Processed == last.op = "advance" /\ last.exc = NoExc

\* C5: the calls recorded for a processed batch are the metrics recorder's
\* on_evaluation_batch_start, the batch-start hook, the step, the step-end hook,
\* the batch-end hook and store_predictions, in this order, once each and all
\* for that batch; they are the variants of one mode when trainer.testing did
\* not change during the batch.
C5_HookOrder ==
    Processed =>
        /\ [i \in 1..Len(HookCalls) |-> Place(HookCalls[i].fx)] = <<1, 2, 3, 4, 5, 6>>
        /\ \A i \in 1..Len(calls) : calls[i].batch_idx = batch_idx
        /\ (\A i \in 1..Len(calls) : calls[i].testing = testing)
              => [i \in 1..Len(HookCalls) |-> HookCalls[i].fx] = HookFx(testing)
C5_SecondBatchProcessed ==
    Processed /\ batch_idx = 1 /\ testing /\ Len(batches) = 2

\* the run's batches were all stored in test mode and each step output, as
\* the step-end hook passed it on, was a Result carrying predictions
TestRun ==
    \A i \in 1..Len(batches) :
        /\ batches[i].testing
        /\ batches[i].output.kind = "Result"
        /\ batches[i].output.predictions # NoPredictions

\* C6: in test mode, when every step output is a Result carrying predictions,
\* the prediction collection holds exactly the predictions of the run's
\* processed batches, in batch order, and one output per batch is kept.
C6_PredictionsInBatchOrder ==
    TestRun =>
        /\ predictions.items = [i \in 1..Len(batches) |-> batches[i].output.predictions]
        /\ predictions.items = [i \in 1..Len(batches) |-> PredictionsOf(batches[i].batch_idx)]
        /\ Len(outputs) = Len(batches)
C6_ThreeBatchesStored ==
    TestRun /\ BatchIndices = <<0, 1, 2>> /\ predictions.items = <<1, 2, 3>>

\* the run's batches were all stored in validation mode
ValidationRun == \A i \in 1..Len(batches) : ~batches[i].testing
StoreCall == CallsTo(calls, {"store_predictions"})[1]
ReducerCall == CallsTo(calls, {"_track_output_for_epoch_end"})[1]

\* C7: in validation mode the prediction collection stays as empty as reset()
\* left it, whatever the outputs hold, and store_predictions leaves the
\* output's predictions in place: the reducer is passed what the batch-end
\* hook was passed.
C7_ValidationStoresNothing ==
    /\ ValidationRun => predictions.items = <<>>
    /\ (Processed /\ ~StoreCall.testing) => ReducerCall.output = StoreCall.output
C7_ValidationResultsProcessed ==
    /\ Processed /\ ValidationRun /\ Len(batches) = 2
    /\ \A i \in 1..2 : batches[i].output = ResultOutput(PredictionsOf(i - 1))
    /\ predictions = PredictionCollection

\* C8: the keyword arguments of every step call are batch, batch_idx and, as
\* the last one, dataloader_idx exactly when num_dataloaders > 1, in both modes.
C8_StepKwargs ==
    \A i \in 1..Len(calls) :
        calls[i].fx \in StepFx =>
            calls[i].kwargs = IF num_dataloaders > 1
                              THEN <<"batch", "batch_idx", "dataloader_idx">>
                              ELSE <<"batch", "batch_idx">>
C8_TestStepOfSeveralDataloaders ==
    \E i \in 1..Len(calls) :
        /\ calls[i].fx = "test_step"
        /\ calls[i].kwargs = <<"batch", "batch_idx", "dataloader_idx">>
        /\ num_dataloaders = 2

\* the host site a recorded function belongs to
SiteOf(fx) ==
    IF fx \in Range(HookFx(TRUE)) \cup Range(HookFx(FALSE))
    THEN <<"", "on_batch_start", "step", "step_end", "on_batch_end", "">>[Place(fx)]
    ELSE ""

\* C9: when the step function or a batch hook raises, advance() raises that
\* error, the raising call is the last call advance() makes, outputs,
\* predictions and the processed batches are as before, and the batch is not
\* called twice nor the error turned into StopIteration.
C9_HostErrorPropagates ==
    [][(last'.op = "advance" /\ last'.site \in HostSites) =>
          /\ last'.exc = AdapterError
          /\ calls' # <<>>
          /\ SiteOf(calls'[Len(calls')].fx) = last'.site
          /\ \A i, j \in 1..Len(calls') : calls'[i].fx = calls'[j].fx => i = j
          /\ outputs' = outputs
          /\ predictions' = predictions
          /\ batches' = batches
          /\ iteration_count' = iteration_count
          /\ dataloader'.idx = dataloader.idx + 1]_vars
C9_BatchEndHookRaised ==
    /\ last.op = "advance" /\ last.exc = AdapterError /\ last.site = "on_batch_end"
    /\ testing /\ predictions.items # <<>> /\ outputs # <<>>

\* C10: advance() while dl_max_batches is unset raises an error, makes no call
\* and leaves outputs, predictions and batch_idx as they were.
C10_AdvanceBeforeRunStart ==
    [][(last'.op = "advance" /\ dl_max_batches = None) =>
          /\ last'.exc # NoExc
          /\ calls' = <<>>
          /\ UNCHANGED <<outputs, predictions, batch_idx>>]_vars

\* --------------------------------------------------------------- C11 .. C20
\* what the reducer is passed for a processed batch: the output the batch-end
\* hook was passed, without its predictions when store_predictions took them
Reduced(b) ==
    IF b.output.kind = "Result" /\ b.testing
    THEN [b.output EXCEPT !.predictions = NoPredictions]
    ELSE b.output
\* the left fold of the reducer over the outputs of the run's first n batches
RECURSIVE Fold(_)
Fold(n) ==
    IF n = 0 THEN <<>> ELSE track_output_for_epoch_end(Fold(n - 1), Reduced(batches[n]))

\* advance() is about to pull a None batch
PullsNone == dataloader.it /\ dataloader.rest # <<>> /\ Head(dataloader.rest) = NullBatch

\* C11: an advance() that pulls a None batch raises StopIteration and makes no
\* call at all, outputs, predictions and the processed batches stay as they
\* were, Loop.run leaves its loop, and the on_run_end() that follows returns
\* the outputs folded from the batches before the None batch.
C11_NoneBatchEndsRun ==
    [][/\ (last'.op = "advance" /\ PullsNone) =>
              /\ last'.exc = StopIteration
              /\ calls' = <<>>
              /\ UNCHANGED <<outputs, predictions, batches, stepped, iteration_count>>
              /\ phase = "running" => phase' = "stopped"
       /\ (last'.op = "on_run_end" /\ last.site = "batch is None" /\ driven) =>
              /\ returned' = outputs
              /\ returned' = Fold(Len(batches))]_vars
C11_ReturnedAfterNoneBatch ==
    /\ phase = "ended" /\ driven /\ last.op = "on_run_end"
    /\ dataloader.rest = <<Batch>> /\ dataloader.idx = 2
    /\ Len(batches) = 1 /\ returned = outputs /\ Len(returned) = 1

\* the run has terminated: done is true, or advance() raised StopIteration
\* (exhausted dataloader or None batch), or on_run_end() has returned
Terminated ==
    \/ phase = "running" /\ done = "True"
    \/ phase = "stopped" /\ last.exc = StopIteration
    \/ phase = "ended"

\* C12: once a run of Loop.run has terminated, an advance() made without a
\* reset() in between makes no call and leaves outputs and predictions as
\* they were.
C12_DoneIsAbsorbing ==
    [][(driven /\ Terminated /\ last'.op = "advance") =>
          /\ calls' = <<>>
          /\ UNCHANGED <<outputs, predictions>>]_vars

\* C13: in a run, the first advance() that returns sets batch_idx to 0 and
\* every later one to one more than it was (on_run_start leaves batch_idx as
\* it finds it); and wherever done evaluates to a value, it is true exactly
\* when batch_idx is set and batch_idx >= dl_max_batches.
C13_BatchIdxCountsAdvances ==
    /\ [](done # TypeError =>
            (done = "True" <=> /\ batch_idx # None
                               /\ dl_max_batches # None
                               /\ batch_idx >= dl_max_batches))
    /\ [][/\ last'.op = "on_run_start" => batch_idx' = batch_idx
          /\ (phase = "running" /\ last'.op = "advance" /\ last'.exc = NoExc) =>
                /\ batches = <<>> => batch_idx' = 0
                /\ batches # <<>> => batch_idx' = batch_idx + 1
                /\ batch_idx' = Len(batches') - 1]_vars
C13_ThirdBatchDone ==
    /\ phase = "running" /\ Processed /\ BatchIndices = <<0, 1, 2>>
    /\ batch_idx = 2 /\ dl_max_batches = 2 /\ done = "True"

\* the positions in a trace of the calls made to function names in S
PlacesOf(trace, S) == {i \in 1..Len(trace) : trace[i].fx \in S}
ReducerFx == {"_track_output_for_epoch_end"}

\* C14: an advance() that returns calls the reducer once, as its last call,
\* after the batch-end hook and store_predictions, with self.outputs and the
\* batch's output, and assigns what the reducer returns to self.outputs; an
\* advance() that raises does not call it; on_run_end() returns self.outputs,
\* which is the left fold of the reducer over the outputs of the run's batches
\* in order, the empty list when there was none.
C14_ReducerFoldsOutputs ==
    [][/\ (last'.op = "advance" /\ last'.exc = NoExc) =>
              /\ PlacesOf(calls', ReducerFx) = {Len(calls')}
              /\ \A i \in PlacesOf(calls', BatchEndFx \cup {"store_predictions"}) :
                    i < Len(calls')
              /\ calls'[Len(calls')].output = Reduced(batches'[Len(batches')])
              /\ outputs' = track_output_for_epoch_end(outputs, calls'[Len(calls')].output)
       /\ (last'.op = "advance" /\ last'.exc # NoExc) =>
              /\ PlacesOf(calls', ReducerFx) = {}
              /\ outputs' = outputs
       /\ last'.op = "on_run_end" =>
              /\ returned' = outputs
              /\ returned' = Fold(Len(batches))
              /\ batches = <<>> => returned' = <<>>]_vars
C14_ReturnedWithoutNoneOutput ==
    /\ phase = "ended" /\ last.op = "on_run_end" /\ driven
    /\ Len(batches) = 3 /\ Len(returned) = 2
    /\ batches[2].output = NoneOutput

StepEndFx == {"test_step_end", "validation_step_end"}
TrackerFx == {"track_eval_loss_history"}
\* what the step-end hook returned in the last advance(), and that value once
\* store_predictions has taken the predictions out of it
StepEndCall == CallsTo(calls, StepEndFx)[1]
Taken(output) ==
    IF output.kind = "Result" /\ StoreCall.testing
    THEN [output EXCEPT !.predictions = NoPredictions]
    ELSE output

\* C15: the step-end hook is passed what the step function returned, and what
\* the hook returns is the output passed to the batch-end hook and to
\* store_predictions, and (without the predictions store_predictions took out
\* of it) to the debug tracker and the reducer, also when the hook returns
\* None or another value than it was passed.
C15_StepEndReplacesOutput ==
    /\ \A i \in PlacesOf(calls, StepEndFx) :
          calls[i].output = CallsTo(calls, StepFx)[1].ret
    /\ \A i \in PlacesOf(calls, BatchEndFx \cup {"store_predictions"}) :
          calls[i].output = StepEndCall.ret
    /\ \A i \in PlacesOf(calls, TrackerFx \cup ReducerFx) :
          calls[i].output = Taken(StepEndCall.ret)
C15_HookReturnedNone ==
    /\ Processed
    /\ CallsTo(calls, StepFx)[1].ret.kind = "Result"
    /\ StepEndCall.ret = NoneOutput
    /\ ReducerCall.output = NoneOutput
C15_HookReturnedDict ==
    Processed /\ StepEndCall.output.kind = "Result" /\ ReducerCall.output.kind = "dict"

\* the last advance() ran wholly in test mode
TestBatch == \A i \in 1..Len(calls) : calls[i].testing

\* C16: for a batch processed in test mode whose output is a Result with
\* predictions, on_test_batch_end is passed the output with its predictions,
\* the reducer is passed it without them, and the output appended to
\* self.outputs carries none.
C16_PredictionsTakenAfterBatchEnd ==
    (/\ Processed /\ TestBatch
     /\ StepEndCall.ret.kind = "Result"
     /\ StepEndCall.ret.predictions # NoPredictions) =>
        /\ CallsTo(calls, {"on_test_batch_end"})[1].output = StepEndCall.ret
        /\ \A i \in PlacesOf(calls, {"on_test_batch_end"}),
              j \in PlacesOf(calls, {"store_predictions"}) : i < j
        /\ ReducerCall.output = ResultOutput(NoPredictions)
        /\ outputs[Len(outputs)] = ResultOutput(NoPredictions)
        /\ predictions.items[Len(predictions.items)] = StepEndCall.ret.predictions
C16_SecondTestBatchFolded ==
    /\ Processed /\ TestBatch /\ batch_idx = 1
    /\ CallsTo(calls, {"on_test_batch_end"})[1].output = ResultOutput(PredictionsOf(1))
    /\ outputs = <<ResultOutput(NoPredictions), ResultOutput(NoPredictions)>>

\* the names called in test mode and in validation mode
TestFx == Range(HookFx(TRUE)) \ Range(HookFx(FALSE))
ValidationFx == Range(HookFx(FALSE)) \ Range(HookFx(TRUE))

\* C17: the mode-specific calls of one advance() are all test variants or all
\* validation variants, prediction capture reads the same mode as they do,
\* and every batch of a run of Loop.run is captured in one mode.
C17_ModeFixedForRun ==
    /\ PlacesOf(calls, TestFx) = {} \/ PlacesOf(calls, ValidationFx) = {}
    /\ \A i \in PlacesOf(calls, {"store_predictions"}) :
          /\ calls[i].testing => PlacesOf(calls, ValidationFx) = {}
          /\ ~calls[i].testing => PlacesOf(calls, TestFx) = {}
    /\ driven => \A i, j \in 1..Len(batches) : batches[i].testing = batches[j].testing

NewResultsFx == {"_results = Result()"}
CacheFx == {"cache_logged_metrics"}

\* C18: in every advance(), the call of the step function is directly
\* preceded by the assignment of a new Result to model_ref._results, and when
\* the step function returns, cache_logged_metrics is the next call, before
\* the step-end hook; each happens once per step call.
C18_FreshResultsPerStep ==
    last.op = "advance" =>
        /\ \A i \in PlacesOf(calls, StepFx) :
              /\ i > 1 /\ calls[i - 1].fx \in NewResultsFx
              /\ calls[i - 1].batch_idx = calls[i].batch_idx
              /\ last.site # "step" => /\ i < Len(calls)
                                       /\ calls[i + 1].fx \in CacheFx
        /\ \A j \in PlacesOf(calls, StepEndFx) :
              \E i \in PlacesOf(calls, StepFx), k \in PlacesOf(calls, CacheFx) :
                  i < k /\ k < j
        /\ Cardinality(PlacesOf(calls, NewResultsFx)) = Cardinality(PlacesOf(calls, StepFx))
        /\ Cardinality(PlacesOf(calls, CacheFx)) <= 1
C18_SecondStepOnFreshResults ==
    /\ Processed /\ batch_idx = 1
    /\ calls[3].fx \in NewResultsFx /\ calls[4].fx \in StepFx /\ calls[5].fx \in CacheFx
    /\ calls[4].ret.kind = "Result"

\* C19: under Loop.run, with every hook and step call returning, a run that
\* has started ends: on_run_end() is reached and returns self.outputs, over a
\* dataloader that is exhausted first as over one that holds more batches
\* than the run pulls.
C19_RunTerminates ==
    (phase = "running") ~> (phase = "ended" /\ last.op = "on_run_end" /\ returned = outputs)
C19_EndedByDoneBeforeExhaustion ==
    /\ phase = "ended" /\ last.op = "on_run_end"
    /\ dl_max_batches = 1 /\ dataloader.rest # <<>> /\ OnlyBatches
    /\ batches # <<>> /\ returned = outputs

LogFx == {"log_evaluation_step_metrics"}

\* C20: an advance() that returns calls log_evaluation_step_metrics once, after
\* store_predictions and the debug tracker and before the reducer; an
\* advance() that raises (exhausted dataloader, None batch, a raising step or
\* hook) does not call it.
C20_MetricsLoggedOncePerBatch ==
    /\ Processed =>
          /\ Cardinality(PlacesOf(calls, LogFx)) = 1
          /\ \A l \in PlacesOf(calls, LogFx) :
                /\ calls[l].batch_idx = batch_idx
                /\ \A i \in PlacesOf(calls, {"store_predictions"} \cup TrackerFx) : i < l
                /\ PlacesOf(calls, TrackerFx) # {}
                /\ \A r \in PlacesOf(calls, ReducerFx) : l < r
                /\ PlacesOf(calls, ReducerFx) # {}
    /\ (last.op = "advance" /\ last.exc # NoExc) => PlacesOf(calls, LogFx) = {}
C20_LoggedAfterSecondBatch ==
    /\ Processed /\ batch_idx = 1 /\ Len(batches) = 2
    /\ calls[Len(calls) - 1].fx \in LogFx
    /\ calls[Len(calls) - 2].fx \in TrackerFx

====